---- MODULE Spec2Model ----
(***************************************************************************)
(* State-machine model of napari_usg_masker: the USGMaskerWidget           *)
(* (src/napari_usg_masker/_widget.py) with its frame cursor, mask store,   *)
(* label registry, JSON persistence and bulk export.                       *)
(*                                                                         *)
(* Conventions                                                             *)
(*  - a numpy 2D array is [shape |-> <<H, W>>, data |-> row-major pixels]; *)
(*    a JSON nested list is a sequence of rows;                            *)
(*  - a Python dict that keeps insertion order (the label registry, the    *)
(*    JSON objects) is a sequence of [name, cfg] items with unique names;  *)
(*    the mask store, whose order is never observed, is a function;        *)
(*  - a handler is an operator from the widget record to the widget        *)
(*    record; the field exc tells that an exception left a Qt slot or a    *)
(*    handler (Qt hands it to sys.excepthook, the emitter goes on).        *)
(***************************************************************************)
EXTENDS Integers, Sequences, FiniteSets, TLC

VARIABLES
    current_video,   \* None or the name of the loaded video file
    total_frames,
    current_frame,
    current_masks,   \* frame index -> array
    labels_config,   \* ordered dict: name -> {'value', 'color'}
    current_label,
    mask_layer,      \* [exists, data, aliased]
    video_layer,     \* None or the name of the video shown
    frame_slider,    \* [maximum, value] of the QSlider (minimum 0)
    label_combo,     \* [items, text] of the QComboBox
    class_labels,    \* [table, shared]: the class attribute DEFAULT_LABELS now
    disk             \* the document save_masks left on disk

vars == <<current_video, total_frames, current_frame, current_masks,
          labels_config, current_label, mask_layer, video_layer,
          frame_slider, label_combo, class_labels, disk>>

None == "None"

-----------------------------------------------------------------------------
(* Bounds of the model *)

\* how many labels add_custom_label may add to one registry
MaxAdds == 1
\* how many entries of one registry edit_label_color may recolour
MaxEdits == 1
\* how many painted pixels the store may hold when a stroke starts
MaxPaints == 1

-----------------------------------------------------------------------------
(* Arrays *)

Zeros(shape) == [shape |-> shape, data |-> [i \in 1..(shape[1] * shape[2]) |-> 0]]

NoArray == [shape |-> <<0, 0>>, data |-> <<>>]

AllEqual(arr, v) == \A i \in 1..Len(arr.data) : arr.data[i] = v

\* ndarray.tolist(): the nested list of rows
ToList(arr) ==
    [r \in 1..arr.shape[1] |->
        [c \in 1..arr.shape[2] |-> arr.data[(r - 1) * arr.shape[2] + c]]]

\* np.array(nested, dtype=np.uint16) succeeds on a rectangular nested list
Rectangular(rows) ==
    /\ Len(rows) > 0
    /\ \A r \in 1..Len(rows) : Len(rows[r]) = Len(rows[1])

RECURSIVE Flatten(_)
Flatten(rows) == IF rows = <<>> THEN <<>> ELSE Head(rows) \o Flatten(Tail(rows))

NpArray(rows) == [shape |-> <<Len(rows), Len(rows[1])>>, data |-> Flatten(rows)]

-----------------------------------------------------------------------------
(* str(int) and int(str) on frame indices *)

Digits == <<"0", "1", "2", "3", "4", "5", "6", "7", "8", "9">>

RECURSIVE Str(_)
Str(n) == IF n < 10 THEN <<Digits[n + 1]>> ELSE Str(n \div 10) \o <<Digits[(n % 10) + 1]>>

DigitVal(ch) == (CHOOSE d \in 1..10 : Digits[d] = ch) - 1

IsIntStr(s) == Len(s) > 0 /\ \A i \in 1..Len(s) : \E d \in 1..10 : Digits[d] = s[i]

RECURSIVE IntOf(_)
IntOf(s) ==
    IF Len(s) = 1 THEN DigitVal(s[1])
    ELSE 10 * IntOf(SubSeq(s, 1, Len(s) - 1)) + DigitVal(s[Len(s)])

-----------------------------------------------------------------------------
(* Ordered dicts *)

Names(d) == {d[i].name : i \in 1..Len(d)}

Has(d, name) == name \in Names(d)

Get(d, name) == d[CHOOSE i \in 1..Len(d) : d[i].name = name].cfg

\* d[name] = cfg: replaces in place, or appends
Put(d, name, cfg) ==
    IF Has(d, name)
    THEN [i \in 1..Len(d) |-> IF d[i].name = name THEN [name |-> name, cfg |-> cfg] ELSE d[i]]
    ELSE Append(d, [name |-> name, cfg |-> cfg])

HasValue(cfg) == "value" \in DOMAIN cfg
HasColor(cfg) == "color" \in DOMAIN cfg

WellFormed(d) == \A i \in 1..Len(d) : HasValue(d[i].cfg) /\ HasColor(d[i].cfg)

Values(d) == {d[i].cfg.value : i \in {j \in 1..Len(d) : HasValue(d[j].cfg)}}

SetMax(S) == CHOOSE m \in S : \A x \in S : x <= m

DEFAULT_LABELS ==
    << [name |-> "background", cfg |-> [value |-> 0, color |-> <<0, 0, 0, 255>>]],
       [name |-> "metastatic_lymph_node", cfg |-> [value |-> 1, color |-> <<255, 0, 0, 255>>]],
       [name |-> "clean_lymph_node", cfg |-> [value |-> 2, color |-> <<0, 255, 0, 255>>]] >>

-----------------------------------------------------------------------------
(* The video files the user may pick *)

\* frames: the number of frames the reader yields; shape: one frame's shape;
\* opens: imageio.get_reader succeeds; decodes: iterating the reader succeeds
VideoFiles ==
    [ a   |-> [frames |-> 3, shape |-> <<1, 1>>, opens |-> TRUE,  decodes |-> TRUE],
      b   |-> [frames |-> 2, shape |-> <<1, 2>>, opens |-> TRUE,  decodes |-> TRUE],
      e   |-> [frames |-> 0, shape |-> <<0, 0>>, opens |-> TRUE,  decodes |-> TRUE],
      bad |-> [frames |-> 0, shape |-> <<0, 0>>, opens |-> FALSE, decodes |-> FALSE],
      cut |-> [frames |-> 0, shape |-> <<0, 0>>, opens |-> TRUE,  decodes |-> FALSE] ]

VideoNames == DOMAIN VideoFiles

FrameShape(video) == VideoFiles[video].shape

-----------------------------------------------------------------------------
(* The widget as a record, so that a handler is a function of the widget *)

W == [ current_video |-> current_video, total_frames |-> total_frames,
       current_frame |-> current_frame, current_masks |-> current_masks,
       labels_config |-> labels_config, current_label |-> current_label,
       mask_layer |-> mask_layer, video_layer |-> video_layer,
       frame_slider |-> frame_slider, label_combo |-> label_combo,
       class_labels |-> class_labels,
       exc |-> FALSE, escaped |-> FALSE, out |-> "ok" ]

\* what the handler tells the user: its message box, or a silent return
Report(w, o) == [w EXCEPT !.out = o]

\* aliased: the keys of current_masks bound to the very ndarray the layer
\* shows (an assignment without .copy()), so that a stroke, which napari
\* writes into the layer's array in place, shows in the store at once
NoLayer == [exists |-> FALSE, data |-> NoArray, aliased |-> {}]

Layer(arr) == [exists |-> TRUE, data |-> arr, aliased |-> {}]

\* the boundary of a Qt slot: an exception that leaves the slot is handed to
\* sys.excepthook (escaped) and the code that emitted the signal goes on
Slot(w) == IF w.exc THEN [w EXCEPT !.exc = FALSE, !.escaped = TRUE] ELSE w

\* the position of the first entry whose value is v, Len + 1 when there is none
FirstMatch(d, v) ==
    LET hits == {i \in 1..Len(d) : HasValue(d[i].cfg) /\ d[i].cfg.value = v}
    IN IF hits = {} THEN Len(d) + 1 ELSE CHOOSE i \in hits : \A j \in hits : i <= j

\* update_statistics raises KeyError when the search for a label name reads
\* config['value'] of an entry that has none
UpdateStatisticsRaises(w) ==
    \E k \in DOMAIN w.current_masks :
        \E i \in 1..Len(w.current_masks[k].data) :
            \E j \in 1..Len(w.labels_config) :
                /\ j < FirstMatch(w.labels_config, w.current_masks[k].data[i])
                /\ ~HasValue(w.labels_config[j].cfg)

\* create_colormap raises ValueError on an empty registry (max of nothing)
\* and KeyError on an entry without 'value' or without 'color'
CreateColormapRaises(d) == d = <<>> \/ ~WellFormed(d)

\* viewer.layers.remove(layer) fires on_layer_removed, which forgets the layer
RemoveMaskLayer(w) == [w EXCEPT !.mask_layer = NoLayer]

FrameInVideo(w) ==
    /\ w.current_frame < VideoFiles[w.current_video].frames
    /\ w.current_frame >= 0 - VideoFiles[w.current_video].frames

create_new_mask(w) ==
    IF w.current_video = None THEN Report(w, "warned")
    ELSE IF ~FrameInVideo(w) THEN [w EXCEPT !.exc = TRUE]
    ELSE
      LET present   == w.current_frame \in DOMAIN w.current_masks
          mask_data == IF present THEN w.current_masks[w.current_frame]
                       ELSE Zeros(FrameShape(w.current_video))
          w1 == IF present THEN w
                ELSE [w EXCEPT !.current_masks = (w.current_frame :> mask_data) @@ @]
          w2 == IF w1.mask_layer.exists THEN RemoveMaskLayer(w1) ELSE w1
      IN IF CreateColormapRaises(w2.labels_config) THEN [w2 EXCEPT !.exc = TRUE]
         ELSE LET w3 == [w2 EXCEPT !.mask_layer =
                              [Layer(mask_data) EXCEPT
                                  !.aliased = IF present THEN {} ELSE {w.current_frame}]]
              IN IF UpdateStatisticsRaises(w3) THEN [w3 EXCEPT !.exc = TRUE] ELSE w3

\* the "save current mask" idiom of change_frame, prev_frame, next_frame
StoreLayerData(w) ==
    IF w.mask_layer.exists
    THEN [w EXCEPT !.current_masks = (w.current_frame :> w.mask_layer.data) @@ @,
                   !.mask_layer.aliased = @ \ {w.current_frame}]
    ELSE w

\* change_frame without its check that a video is loaded
change_frame_without_video_check(w, frame_index) ==
    create_new_mask([StoreLayerData(w) EXCEPT !.current_frame = frame_index])

change_frame(w, frame_index) ==
    IF w.current_video = None THEN w
    ELSE create_new_mask([StoreLayerData(w) EXCEPT !.current_frame = frame_index])

Clamp(v, hi) == IF v > hi THEN hi ELSE IF v < 0 THEN 0 ELSE v

\* QSlider.setValue: clamps, and emits valueChanged only when the value changes
setValue(w, v) ==
    LET v2 == Clamp(v, w.frame_slider.maximum)
    IN IF v2 = w.frame_slider.value THEN w
       ELSE Slot(change_frame([w EXCEPT !.frame_slider.value = v2], v2))

\* QSlider.setMaximum: a value above the new maximum is clamped, and reported
setMaximum(w, m) ==
    LET w1 == [w EXCEPT !.frame_slider.maximum = m]
    IN IF w.frame_slider.value > m
       THEN Slot(change_frame([w1 EXCEPT !.frame_slider.value = m], m))
       ELSE w1

on_mask_changed(w) ==
    IF w.mask_layer.exists
    THEN LET w1 == StoreLayerData(w)
         IN IF UpdateStatisticsRaises(w1) THEN [w1 EXCEPT !.exc = TRUE] ELSE w1
    ELSE w

prev_frame(w) ==
    IF w.current_frame > 0
    THEN setValue(StoreLayerData(w), w.current_frame - 1)
    ELSE Report(w, "noop")

next_frame(w) ==
    IF w.current_frame < w.total_frames - 1
    THEN setValue(StoreLayerData(w), w.current_frame + 1)
    ELSE Report(w, "noop")

-----------------------------------------------------------------------------
(* The state after USGMaskerWidget.__init__ *)

NonBackground(d) ==
    SelectSeq([i \in 1..Len(d) |-> d[i].name], LAMBDA n : n # "background")

\* A file: readable (open succeeds), json (json.load succeeds), keys (the
\* top-level keys among 'labels_config' and 'masks'), labels_config (the value
\* of that key; for a bare label file, the document itself) and masks (the
\* ordered object: frame key -> nested list).
NoDoc == [readable |-> FALSE, json |-> FALSE, keys |-> {},
          labels_config |-> <<>>, masks |-> <<>>]

Doc(keys, labels, masks) ==
    [readable |-> TRUE, json |-> TRUE, keys |-> keys,
     labels_config |-> labels, masks |-> masks]

Item(name, cfg) == [name |-> name, cfg |-> cfg]

\* saved: the document save_masks wrote; saved_from: the store and the
\* registry it was written from (history, to compare a later load with)
\* mask_file: the document save_mask_data wrote; mask_file_from: the mapping
\* it was given; layers: what read_mask_data returned last
NoDisk ==
    [saved |-> NoDoc,
     saved_from |-> [current_masks |-> <<>>, labels_config |-> <<>>],
     mask_file |-> NoDoc,
     mask_file_from |-> <<>>,
     layers |-> <<>>]

Init ==
    /\ current_video = None
    /\ total_frames = 0
    /\ current_frame = 0
    /\ current_masks = <<>>
    /\ labels_config = DEFAULT_LABELS
    /\ current_label = 1
    /\ mask_layer = NoLayer
    /\ video_layer = None
    /\ frame_slider = [maximum |-> 0, value |-> 0]
    /\ label_combo = [items |-> NonBackground(DEFAULT_LABELS),
                      text |-> "metastatic_lymph_node"]
    /\ class_labels = [table |-> DEFAULT_LABELS, shared |-> TRUE]
    /\ disk = NoDisk

\* the widget after a handler run as a Qt slot
Becomes(w0) ==
    LET w == Slot(w0)
    IN /\ current_video' = w.current_video
       /\ total_frames' = w.total_frames
       /\ current_frame' = w.current_frame
       /\ current_masks' = w.current_masks
       /\ labels_config' = w.labels_config
       /\ current_label' = w.current_label
       /\ mask_layer' = w.mask_layer
       /\ video_layer' = w.video_layer
       /\ frame_slider' = w.frame_slider
       /\ label_combo' = w.label_combo
       /\ class_labels' = w.class_labels

-----------------------------------------------------------------------------
(* Navigation and painting *)

\* the user drags the frame slider
ChangeFrame ==
    \E v \in 0..frame_slider.maximum :
        /\ v # frame_slider.value
        /\ Becomes(change_frame([W EXCEPT !.frame_slider.value = v], v))
        /\ UNCHANGED disk

PrevFrame ==
    /\ Becomes(prev_frame(W))
    /\ UNCHANGED disk

NextFrame ==
    /\ Becomes(next_frame(W))
    /\ UNCHANGED disk

CreateNewMask ==
    /\ Becomes(create_new_mask(W))
    /\ UNCHANGED disk

\* the painted (non-zero) pixels of the store
Strokes(masks) ==
    Cardinality(UNION {{<<k, i>> : i \in {j \in 1..Len(masks[k].data) : masks[k].data[j] # 0}} :
                          k \in DOMAIN masks})

\* a brush stroke at pixel p of the displayed labels layer: napari writes the
\* selected label into the layer's array in place, which every store entry
\* bound to that array shows, and fires events.data
paint(w, p) ==
    LET data == [w.mask_layer.data EXCEPT !.data[p] = w.current_label]
        w1   == [w EXCEPT !.mask_layer.data = data,
                          !.current_masks =
                              [k \in DOMAIN @ |-> IF k \in w.mask_layer.aliased
                                                  THEN data ELSE @[k]]]
    IN on_mask_changed(w1)

Paint ==
    /\ mask_layer.exists
    /\ Strokes(current_masks) < MaxPaints
    /\ \E p \in 1..Len(mask_layer.data.data) :
        /\ mask_layer.data.data[p] # current_label
        /\ Becomes(paint(W, p))
    /\ UNCHANGED disk

-----------------------------------------------------------------------------
(* load_video *)

\* the except clause of a handler: the exception is caught and reported
Caught(w) == [w EXCEPT !.exc = FALSE, !.out = "error"]

RemoveLayers(w) == [w EXCEPT !.video_layer = None, !.mask_layer = NoLayer]

\* load_video without the reset of current_masks
load_video_keeps_masks(w, file, add_ok) ==
    IF file = "" THEN Report(w, "cancelled")
    ELSE
      LET v  == VideoFiles[file]
          w1 == IF w.current_video # None THEN StoreLayerData(w) ELSE w
      IN IF ~v.opens \/ ~v.decodes THEN Caught(w1)
         ELSE LET w2 == RemoveLayers(w1)
              IN IF v.frames = 0 \/ ~add_ok THEN Caught(w2)
                 ELSE
                   LET w3 == [w2 EXCEPT !.video_layer = file,
                                        !.current_video = file,
                                        !.total_frames = v.frames,
                                        !.current_frame = 0,
                                        !.mask_layer = NoLayer]
                       w4 == setValue(setMaximum(w3, v.frames - 1), 0)
                       w5 == create_new_mask(w4)
                   IN IF w5.exc THEN Caught(w5) ELSE w5

\* load_video with the slider's maximum set to total_frames instead of
\* total_frames - 1
load_video_slider_past_end(w, file, add_ok) ==
    IF file = "" THEN Report(w, "cancelled")
    ELSE
      LET v  == VideoFiles[file]
          w1 == IF w.current_video # None THEN StoreLayerData(w) ELSE w
      IN IF ~v.opens \/ ~v.decodes THEN Caught(w1)
         ELSE LET w2 == RemoveLayers(w1)
              IN IF v.frames = 0 \/ ~add_ok THEN Caught(w2)
                 ELSE
                   LET w3 == [w2 EXCEPT !.video_layer = file,
                                        !.current_video = file,
                                        !.total_frames = v.frames,
                                        !.current_frame = 0,
                                        !.current_masks = <<>>,
                                        !.mask_layer = NoLayer]
                       w4 == setValue(setMaximum(w3, v.frames), 0)
                       w5 == create_new_mask(w4)
                   IN IF w5.exc THEN Caught(w5) ELSE w5

\* file: the path the dialog returned ("" when cancelled); add_ok: whether
\* viewer.add_image accepts the data.  napari refuses image data of fewer than
\* two dimensions, which is what np.array([]) of a video without frames is.
load_video(w, file, add_ok) ==
    IF file = "" THEN Report(w, "cancelled")
    ELSE
      LET v  == VideoFiles[file]
          w1 == IF w.current_video # None THEN StoreLayerData(w) ELSE w
      IN IF ~v.opens \/ ~v.decodes THEN Caught(w1)
         ELSE LET w2 == RemoveLayers(w1)
              IN IF v.frames = 0 \/ ~add_ok THEN Caught(w2)
                 ELSE
                   LET w3 == [w2 EXCEPT !.video_layer = file,
                                        !.current_video = file,
                                        !.total_frames = v.frames,
                                        !.current_frame = 0,
                                        !.current_masks = <<>>,
                                        !.mask_layer = NoLayer]
                       w4 == setValue(setMaximum(w3, v.frames - 1), 0)
                       w5 == create_new_mask(w4)
                   IN IF w5.exc THEN Caught(w5) ELSE w5

LoadVideo ==
    \E file \in VideoNames \cup {""}, add_ok \in BOOLEAN :
        /\ Becomes(load_video(W, file, add_ok))
        /\ UNCHANGED disk

-----------------------------------------------------------------------------
(* copy_from_previous, copy_to_next, clear_current_mask *)

copy_from_previous(w) ==
    IF w.current_frame > 0
    THEN LET prev == w.current_frame - 1
         IN IF prev \in DOMAIN w.current_masks
            THEN create_new_mask(
                    [w EXCEPT !.current_masks = (w.current_frame :> w.current_masks[prev]) @@ @,
                              !.mask_layer.aliased = @ \ {w.current_frame}])
            ELSE Report(w, "warned")
    ELSE Report(w, "warned")

\* copy_to_next without .copy(): the next frame's entry is the very array of
\* the current frame's entry
copy_to_next_shares_array(w) ==
    IF w.current_frame < w.total_frames - 1
    THEN LET next == w.current_frame + 1
         IN IF w.current_frame \in DOMAIN w.current_masks
            THEN [w EXCEPT !.current_masks = (next :> w.current_masks[w.current_frame]) @@ @,
                           !.mask_layer.aliased = IF w.current_frame \in @
                                                  THEN @ \cup {next} ELSE @ \ {next}]
            ELSE Report(w, "warned")
    ELSE Report(w, "warned")

copy_to_next(w) ==
    IF w.current_frame < w.total_frames - 1
    THEN LET next == w.current_frame + 1
         IN IF w.current_frame \in DOMAIN w.current_masks
            THEN [w EXCEPT !.current_masks = (next :> w.current_masks[w.current_frame]) @@ @,
                           !.mask_layer.aliased = @ \ {next}]
            ELSE Report(w, "warned")
    ELSE Report(w, "warned")

\* clear_current_mask that only redraws the layer
clear_current_mask_keeps_entry(w, yes) ==
    IF w.current_video = None THEN Report(w, "noop")
    ELSE IF ~yes THEN Report(w, "cancelled")
    ELSE IF ~FrameInVideo(w) THEN [w EXCEPT !.exc = TRUE]
    ELSE create_new_mask(w)

\* yes: the answer to the confirmation box
clear_current_mask(w, yes) ==
    IF w.current_video = None THEN Report(w, "noop")
    ELSE IF ~yes THEN Report(w, "cancelled")
    ELSE IF ~FrameInVideo(w) THEN [w EXCEPT !.exc = TRUE]
    ELSE create_new_mask(
            [w EXCEPT !.current_masks =
                         (w.current_frame :> Zeros(FrameShape(w.current_video))) @@ @,
                      !.mask_layer.aliased = @ \ {w.current_frame}])

CopyFromPrevious ==
    /\ Becomes(copy_from_previous(W))
    /\ UNCHANGED disk

CopyToNext ==
    /\ Becomes(copy_to_next(W))
    /\ UNCHANGED disk

ClearCurrentMask ==
    \E yes \in BOOLEAN :
        /\ Becomes(clear_current_mask(W, yes))
        /\ UNCHANGED disk

-----------------------------------------------------------------------------
(* The label registry *)

\* change_current_label: the slot of label_combo.currentTextChanged
change_current_label(w, label_name) ==
    IF Has(w.labels_config, label_name)
    THEN IF HasValue(Get(w.labels_config, label_name))
         THEN [w EXCEPT !.current_label = Get(w.labels_config, label_name).value]
         ELSE [w EXCEPT !.exc = TRUE]
    ELSE w

\* QComboBox.clear() empties the box and reports the text "" when there was
\* one; the first addItem makes that item current and reports its text
update_label_combo(w) ==
    LET w1 == [w EXCEPT !.label_combo = [items |-> <<>>, text |-> ""]]
        w2 == IF w.label_combo.text # "" THEN Slot(change_current_label(w1, "")) ELSE w1
        items == NonBackground(w2.labels_config)
    IN IF items = <<>> THEN w2
       ELSE LET w3 == [w2 EXCEPT !.label_combo = [items |-> items, text |-> items[1]]]
            IN IF items[1] # "" THEN Slot(change_current_label(w3, items[1])) ELSE w3

\* update_labels_list reads config['value'] and config['color'] of every entry
UpdateLabelsListRaises(d) == ~WellFormed(d)

\* the items the labels list shows: update_labels_list stops at the first
\* entry it cannot read
RECURSIVE ListItems(_)
ListItems(d) ==
    IF d = <<>> THEN {}
    ELSE IF HasValue(d[1].cfg) /\ HasColor(d[1].cfg)
         THEN {d[1].name} \cup ListItems(Tail(d))
         ELSE {}

\* the names the input dialog may return
AddNames == {"vessel", "nerve"}

\* the colours the colour dialog may return
Palette == {<<0, 0, 255>>}

Rgba(color) == <<color[1], color[2], color[3], 255>>

\* what follows a change of the registry in add_custom_label, edit_label_color
RefreshColormap(w) ==
    IF w.mask_layer.exists /\ CreateColormapRaises(w.labels_config)
    THEN [w EXCEPT !.exc = TRUE]
    ELSE w

\* add_custom_label giving the new label the largest value in use instead of
\* the next one
add_custom_label_reuses_max(w, ok, name, valid, color) ==
    IF ~ok \/ name = "" THEN Report(w, "cancelled")
    ELSE IF Has(w.labels_config, name) THEN Report(w, "warned")
    ELSE IF w.labels_config = <<>>
            \/ \E i \in 1..Len(w.labels_config) : ~HasValue(w.labels_config[i].cfg)
         THEN [w EXCEPT !.exc = TRUE]
    ELSE IF ~valid THEN Report(w, "invalid_color")
    ELSE LET new_value == SetMax(Values(w.labels_config))
             w1 == [w EXCEPT !.labels_config =
                       Put(@, name, [value |-> new_value, color |-> Rgba(color)]),
                             !.out = "accepted"]
             w2 == update_label_combo(w1)
         IN IF UpdateLabelsListRaises(w2.labels_config) THEN [w2 EXCEPT !.exc = TRUE]
            ELSE RefreshColormap(w2)

\* ok, name: the input dialog's answer; valid, color: the colour dialog's
add_custom_label(w, ok, name, valid, color) ==
    IF ~ok \/ name = "" THEN Report(w, "cancelled")
    ELSE IF Has(w.labels_config, name) THEN Report(w, "warned")
    ELSE IF w.labels_config = <<>>
            \/ \E i \in 1..Len(w.labels_config) : ~HasValue(w.labels_config[i].cfg)
         THEN [w EXCEPT !.exc = TRUE]
    ELSE IF ~valid THEN Report(w, "invalid_color")
    ELSE LET new_value == SetMax(Values(w.labels_config)) + 1
             w1 == [w EXCEPT !.labels_config =
                       Put(@, name, [value |-> new_value, color |-> Rgba(color)]),
                             !.out = "accepted"]
             w2 == update_label_combo(w1)
         IN IF UpdateLabelsListRaises(w2.labels_config) THEN [w2 EXCEPT !.exc = TRUE]
            ELSE RefreshColormap(w2)

\* labels_config[name]['color'] = [...]: an assignment into the entry's inner
\* dict.  __init__ copies DEFAULT_LABELS one level deep, so until the registry
\* is replaced the inner dicts of the default names are the class table's own
SetItem(w, name, cfg) ==
    [w EXCEPT !.labels_config = Put(@, name, cfg),
              !.class_labels.table =
                  IF w.class_labels.shared /\ Has(@, name) THEN Put(@, name, cfg) ELSE @]

\* self.labels_config = <the dict json.load returned>: the widget lets go of
\* the inner dicts of DEFAULT_LABELS
Rebind(w, labels) ==
    [w EXCEPT !.labels_config = labels, !.class_labels.shared = FALSE]

\* edit_label_color refreshing the combo box as add_custom_label does
edit_label_color_refreshes_combo(w, item, valid, color) ==
    IF item = None THEN Report(w, "warned")
    ELSE IF ~Has(w.labels_config, item) THEN Report(w, "noop")
    ELSE IF ~HasColor(Get(w.labels_config, item)) THEN [w EXCEPT !.exc = TRUE]
    ELSE IF ~valid THEN Report(w, "cancelled")
    ELSE LET old == Get(w.labels_config, item)
             cfg == [k \in DOMAIN old |-> IF k = "color" THEN Rgba(color) ELSE old[k]]
             w1  == update_label_combo(
                        [SetItem(w, item, cfg) EXCEPT !.out = "accepted"])
         IN IF UpdateLabelsListRaises(w1.labels_config) THEN [w1 EXCEPT !.exc = TRUE]
            ELSE RefreshColormap(w1)

\* item: the name shown by the selected list item, None when nothing is selected
edit_label_color(w, item, valid, color) ==
    IF item = None THEN Report(w, "warned")
    ELSE IF ~Has(w.labels_config, item) THEN Report(w, "noop")
    ELSE IF ~HasColor(Get(w.labels_config, item)) THEN [w EXCEPT !.exc = TRUE]
    ELSE IF ~valid THEN Report(w, "cancelled")
    ELSE LET old == Get(w.labels_config, item)
             cfg == [k \in DOMAIN old |-> IF k = "color" THEN Rgba(color) ELSE old[k]]
             w1  == [SetItem(w, item, cfg) EXCEPT !.out = "accepted"]
         IN IF UpdateLabelsListRaises(w1.labels_config) THEN [w1 EXCEPT !.exc = TRUE]
            ELSE RefreshColormap(w1)

Added(d) == Cardinality(Names(d) \cap AddNames)

AddCustomLabel ==
    \E ok \in BOOLEAN, name \in AddNames \cup {"", "background"},
       valid \in BOOLEAN, color \in Palette :
        /\ Added(labels_config) < MaxAdds
        /\ Becomes(add_custom_label(W, ok, name, valid, color))
        /\ UNCHANGED disk

Edited(d) ==
    Cardinality({i \in 1..Len(d) : /\ d[i].name \notin AddNames
                                   /\ HasColor(d[i].cfg)
                                   /\ d[i].cfg.color \in {Rgba(c) : c \in Palette}})

\* the colour edits in effect: those of the registry, and those left in the
\* class table by a registry that was replaced since
EditsInEffect ==
    Edited(labels_config) + IF class_labels.shared THEN 0 ELSE Edited(class_labels.table)

EditLabelColor ==
    \E item \in ListItems(labels_config) \cup {None}, valid \in BOOLEAN, color \in Palette :
        /\ EditsInEffect < MaxEdits
        /\ Becomes(edit_label_color(W, item, valid, color))
        /\ UNCHANGED disk

\* the user picks another item of the label combo box
ChangeCurrentLabel ==
    \E i \in 1..Len(label_combo.items) :
        /\ label_combo.items[i] # label_combo.text
        /\ Becomes(change_current_label([W EXCEPT !.label_combo.text = label_combo.items[i]],
                                        label_combo.items[i]))
        /\ UNCHANGED disk

-----------------------------------------------------------------------------
(* JSON documents on disk *)

\* the files that exist beside the one save_masks writes
ExternalFiles ==
    [ \* no JSON at all
      broken  |-> [NoDoc EXCEPT !.readable = TRUE],
      \* written for another video: another frame shape, a frame beyond the
      \* video, two labels of one value
      other   |-> Doc({"labels_config", "masks"},
                      << Item("background", [value |-> 0, color |-> <<0, 0, 0>>]),
                         Item("cyst", [value |-> 1, color |-> <<255, 255, 0>>]),
                         Item("node", [value |-> 1, color |-> <<0, 255, 255>>]) >>,
                      << Item(<<"0">>, <<<<1>>, <<0>>>>), Item(<<"7">>, <<<<0>>, <<0>>>>) >>),
      \* masks only, and a frame key that is no integer after one that is; read
      \* as a label file the document is its own registry: one entry, 'masks',
      \* that has neither 'value' nor 'color'
      partial |-> Doc({"masks"},
                      << Item("masks", [frames |-> 2]) >>,
                      << Item(<<"1">>, <<<<1>>>>), Item(<<"x">>, <<<<0>>>>) >>),
      \* a bare label file with an entry that has no colour
      nocolor |-> Doc({},
                      << Item("background", [value |-> 0, color |-> <<0, 0, 0, 255>>]),
                         Item("lesion", [value |-> 1]) >>,
                      <<>>),
      \* a bare label file without labels
      empty   |-> Doc({}, <<>>, <<>>) ]

SavedPath == "saved"

FileNames == DOMAIN ExternalFiles \cup {SavedPath, "missing"}

ReadFile(d, path) ==
    IF path = SavedPath THEN d.saved
    ELSE IF path \in DOMAIN ExternalFiles THEN ExternalFiles[path]
    ELSE NoDoc

\* the loop of load_masks over load_data['masks'].items(): int(key) and
\* np.array(list) may raise, and what was stored before stays stored
RECURSIVE LoadItems(_, _)
LoadItems(items, acc) ==
    IF items = <<>> THEN [masks |-> acc, failed |-> FALSE]
    ELSE IF ~IsIntStr(items[1].name) \/ ~Rectangular(items[1].cfg)
         THEN [masks |-> acc, failed |-> TRUE]
         ELSE LoadItems(Tail(items), (IntOf(items[1].name) :> NpArray(items[1].cfg)) @@ acc)

load_masks(w, path, doc) ==
    IF path = "" THEN Report(w, "cancelled")
    ELSE IF ~doc.readable \/ ~doc.json THEN Caught(w)
    ELSE
      LET w1 == IF "labels_config" \in doc.keys
                THEN update_label_combo(Rebind(w, doc.labels_config))
                ELSE w
      IN IF "labels_config" \in doc.keys /\ UpdateLabelsListRaises(w1.labels_config)
         THEN Caught(w1)
         ELSE
           LET got == LoadItems(doc.masks, <<>>)
               w2  == IF "masks" \in doc.keys
                      THEN [w1 EXCEPT !.current_masks = got.masks,
                                      !.mask_layer.aliased = {}]
                      ELSE w1
           IN IF "masks" \in doc.keys /\ got.failed THEN Caught(w2)
              ELSE LET w3 == IF w2.mask_layer.exists THEN create_new_mask(w2) ELSE w2
                   IN IF w3.exc THEN Caught(w3) ELSE w3

load_label_config(w, path, doc) ==
    IF path = "" THEN Report(w, "cancelled")
    ELSE IF ~doc.readable \/ ~doc.json THEN Caught(w)
    ELSE LET w1 == update_label_combo(Rebind(w, doc.labels_config))
         IN IF UpdateLabelsListRaises(w1.labels_config) THEN Caught(w1)
            ELSE LET w2 == RefreshColormap(w1)
                 IN IF w2.exc THEN Caught(w2) ELSE w2

LoadMasks ==
    \E path \in FileNames \cup {""} :
        /\ Becomes(load_masks(W, path, ReadFile(disk, path)))
        /\ UNCHANGED disk

LoadLabelConfig ==
    \E path \in FileNames \cup {""} :
        /\ Becomes(load_label_config(W, path, ReadFile(disk, path)))
        /\ UNCHANGED disk

-----------------------------------------------------------------------------
(* save_masks *)

RECURSIVE SortedSeq(_)
SortedSeq(S) ==
    IF S = {} THEN <<>>
    ELSE LET m == CHOOSE x \in S : \A y \in S : x <= y
         IN <<m>> \o SortedSeq(S \ {m})

\* the document save_masks dumps: str(frame_idx) -> mask.tolist(), and the
\* registry as it is (the items are listed by frame index here; no reader
\* of a saved document depends on their order)
SavedDoc(w) ==
    LET keys == SortedSeq(DOMAIN w.current_masks)
    IN Doc({"labels_config", "masks"}, w.labels_config,
           [n \in 1..Len(keys) |-> Item(Str(keys[n]), ToList(w.current_masks[keys[n]]))])

\* path: the save dialog's answer; io_ok: whether open(path, 'w') succeeds
save_masks(w, path, io_ok) ==
    IF w.current_masks = <<>> THEN Report(w, "warned")
    ELSE IF path = "" THEN Report(w, "cancelled")
    ELSE IF ~io_ok THEN Caught(w)
    ELSE Report(w, "saved")

SaveMasks ==
    \E path \in {SavedPath, ""}, io_ok \in BOOLEAN :
        LET r == save_masks(W, path, io_ok)
        IN /\ Becomes(r)
           /\ disk' = IF r.out = "saved"
                      THEN [disk EXCEPT !.saved = SavedDoc(W),
                                        !.saved_from = [current_masks |-> current_masks,
                                                        labels_config |-> labels_config]]
                      ELSE disk

-----------------------------------------------------------------------------
(* export_frames_and_masks_png_npy *)

\* numpy's masks_stack[i] = mask: mask is broadcast to the slot's shape when
\* each of its dimensions equals the slot's or is 1, and refused otherwise
Broadcastable(arr, shape) ==
    /\ arr.shape[1] \in {shape[1], 1}
    /\ arr.shape[2] \in {shape[2], 1}

Broadcast(arr, shape) ==
    [shape |-> shape,
     data |-> [p \in 1..(shape[1] * shape[2]) |->
                 LET r == ((p - 1) \div shape[2]) + 1
                     c == ((p - 1) % shape[2]) + 1
                     sr == IF arr.shape[1] = 1 THEN 1 ELSE r
                     sc == IF arr.shape[2] = 1 THEN 1 ELSE c
                 IN arr.data[(sr - 1) * arr.shape[2] + sc]]]

\* colormap = {cfg['value']: cfg['color'][:3]}: the last entry of a value wins
ColorOf(d, v) ==
    LET hits == {i \in 1..Len(d) : d[i].cfg.value = v}
    IN IF hits = {} THEN <<0, 0, 0>>
       ELSE SubSeq(d[CHOOSE i \in hits : \A j \in hits : j <= i].cfg.color, 1, 3)

\* colored[mask == value] = color needs a mask of the frame's shape
ColorizeRaises(arr, d, shape) == d # <<>> /\ arr.shape # shape

Colorize(arr, d, shape) ==
    [p \in 1..(shape[1] * shape[2]) |->
        IF arr.shape = shape THEN ColorOf(d, arr.data[p]) ELSE <<0, 0, 0>>]

\* export_masks_as_images colours a mask of any shape, pixel by pixel; a later
\* registry entry of the same value overwrites an earlier one
ColoredMask(arr, d) == [p \in 1..Len(arr.data) |-> ColorOf(d, arr.data[p])]

\* the images export_masks_as_images writes, by frame index; io_ok: whether
\* imageio.imwrite succeeds
ImagesWritten(w, folder, io_ok) ==
    IF w.current_masks = <<>> \/ folder = "" \/ ~io_ok \/ ~WellFormed(w.labels_config)
    THEN <<>>
    ELSE [k \in DOMAIN w.current_masks |-> ColoredMask(w.current_masks[k], w.labels_config)]

export_masks_as_images(w, folder, io_ok) ==
    IF w.current_masks = <<>> THEN Report(w, "warned")
    ELSE IF folder = "" THEN Report(w, "cancelled")
    ELSE IF ~WellFormed(w.labels_config) \/ ~io_ok THEN Caught(w)
    ELSE Report(w, "exported")

ExportMasksAsImages ==
    \E folder \in {"out", ""}, io_ok \in BOOLEAN :
        /\ Becomes(export_masks_as_images(W, folder, io_ok))
        /\ UNCHANGED disk

\* the folder one export run fills: the per-frame artifacts by frame index,
\* the stacks and the metadata document; failed when the run raised
NoExport ==
    [frames_png |-> {}, frames_npy |-> {}, masks_raw |-> <<>>, masks_color |-> <<>>,
     masks_npy |-> <<>>, stacks |-> FALSE, masks_stack |-> <<>>,
     metadata |-> FALSE, masked_frames |-> <<>>, failed |-> FALSE]

\* the loop over the frames i..T-1; fail_at is the frame whose PNG cannot be
\* written (T when every write succeeds).  What was written stays written.
RECURSIVE ExportFrames(_, _, _, _)
ExportFrames(w, i, fail_at, dir) ==
    LET shape == FrameShape(w.current_video)
    IN IF i >= w.total_frames THEN dir
       ELSE IF i = fail_at THEN [dir EXCEPT !.failed = TRUE]
       ELSE
         LET d1 == [dir EXCEPT !.frames_png = @ \cup {i}, !.frames_npy = @ \cup {i}]
         IN IF i \notin DOMAIN w.current_masks THEN ExportFrames(w, i + 1, fail_at, d1)
            ELSE
              LET mask == w.current_masks[i]
              IN IF ~Broadcastable(mask, shape) THEN [d1 EXCEPT !.failed = TRUE]
                 ELSE
                   LET d2 == [d1 EXCEPT !.masks_stack[i + 1] = Broadcast(mask, shape),
                                        !.masks_raw = (i :> mask) @@ @]
                   IN IF ColorizeRaises(mask, w.labels_config, shape)
                      THEN [d2 EXCEPT !.failed = TRUE]
                      ELSE ExportFrames(w, i + 1, fail_at,
                              [d2 EXCEPT !.masks_color =
                                            (i :> Colorize(mask, w.labels_config, shape)) @@ @,
                                         !.masks_npy = (i :> mask) @@ @])

\* the export with its loop over range(1, T) instead of range(T)
ExportRunSkipsFirstFrame(w, fail_at) ==
    LET shape == FrameShape(w.current_video)
        start == [NoExport EXCEPT
                    !.masks_stack = [i \in 1..w.total_frames |-> Zeros(shape)]]
        dir   == ExportFrames(w, 1, fail_at, start)
    IN IF dir.failed THEN [dir EXCEPT !.masks_stack = <<>>]
       ELSE [dir EXCEPT !.stacks = TRUE, !.metadata = TRUE,
                        !.masked_frames = SortedSeq(DOMAIN w.current_masks)]

\* the export writing the stacks and the metadata in a finally clause
ExportRunAlwaysWritesStacks(w, fail_at) ==
    LET shape == FrameShape(w.current_video)
        start == [NoExport EXCEPT
                    !.masks_stack = [i \in 1..w.total_frames |-> Zeros(shape)]]
        dir   == ExportFrames(w, 0, fail_at, start)
    IN [dir EXCEPT !.stacks = TRUE, !.metadata = TRUE,
                   !.masked_frames = SortedSeq(DOMAIN w.current_masks)]

\* what one export run writes into the chosen folder
ExportRun(w, fail_at) ==
    LET shape == FrameShape(w.current_video)
        start == [NoExport EXCEPT
                    !.masks_stack = [i \in 1..w.total_frames |-> Zeros(shape)]]
        dir   == ExportFrames(w, 0, fail_at, start)
    IN IF dir.failed THEN [dir EXCEPT !.masks_stack = <<>>]
       ELSE [dir EXCEPT !.stacks = TRUE, !.metadata = TRUE,
                        !.masked_frames = SortedSeq(DOMAIN w.current_masks)]

\* folder: the folder dialog's answer
export_frames_and_masks_png_npy(w, folder, fail_at) ==
    IF w.current_video = None THEN Report(w, "warned")
    ELSE IF folder = "" THEN Report(w, "cancelled")
    ELSE IF ~WellFormed(w.labels_config) THEN Caught(w)
    ELSE IF ExportRun(w, fail_at).failed THEN Caught(w)
    ELSE Report(w, "exported")

\* what a call of the handler leaves in the folder: nothing when it returns
\* before the loop
ExportWrites(w, folder, fail_at) ==
    IF w.current_video = None \/ folder = "" \/ ~WellFormed(w.labels_config)
    THEN NoExport
    ELSE ExportRun(w, fail_at)

\* the export changes nothing in memory; what it writes is ExportRun
ExportFramesAndMasks ==
    \E folder \in {"out", ""}, fail_at \in 0..total_frames :
        /\ Becomes(export_frames_and_masks_png_npy(W, folder, fail_at))
        /\ UNCHANGED disk

-----------------------------------------------------------------------------
(* _reader.py: save_mask_data and read_mask_data *)

\* the largest frame index of a mapping handed to save_mask_data
MaxReaderFrame == 2

\* the masks of such a mapping: 1x2 masks of the labels 0 and 1
ReaderMasks ==
    {NpArray(<<<<0, 1>>>>), NpArray(<<<<1, 0>>>>)}

\* the non-empty mappings frame index -> mask
ReaderInputs ==
    UNION {[S -> ReaderMasks] : S \in (SUBSET (0..MaxReaderFrame)) \ {{}}}

\* the document save_mask_data dumps; io_ok: whether open(output_path, 'w')
\* succeeds
save_mask_data(masks, labels, io_ok) ==
    LET keys == SortedSeq(DOMAIN masks)
    IN IF ~io_ok THEN [ok |-> FALSE, doc |-> NoDoc]
       ELSE [ok |-> TRUE,
             doc |-> Doc({"labels_config", "masks"}, labels,
                         [n \in 1..Len(keys) |-> Item(Str(keys[n]), ToList(masks[keys[n]]))])]

\* masks_dict[key]: the position of the key, 0 for a KeyError
KeyAt(items, key) ==
    LET hits == {n \in 1..Len(items) : items[n].name = key}
    IN IF hits = {} THEN 0 ELSE CHOOSE n \in hits : TRUE

\* the colormap of the layer: the entries that have 'value' and 'color', the
\* colour's first three components, each over 255
ReaderColormap(labels) ==
    LET ok == {i \in 1..Len(labels) : HasValue(labels[i].cfg) /\ HasColor(labels[i].cfg)}
    IN [v \in {labels[i].cfg.value : i \in ok} |->
           LET last == CHOOSE i \in ok : /\ labels[i].cfg.value = v
                                         /\ \A j \in ok : labels[j].cfg.value = v => j <= i
           IN [c \in 1..3 |-> [over |-> 255, num |-> labels[last].cfg.color[c]]]]

\* masks_3d sized by the number of frames in the file, the masks packed
Masks3DPacked(items, frame_indices) ==
    LET first == NpArray(items[KeyAt(items, Str(frame_indices[1]))].cfg)
    IN [raised |-> FALSE,
        frames |-> [n \in 1..Len(frame_indices) |->
                       Broadcast(NpArray(items[KeyAt(items, Str(frame_indices[n]))].cfg),
                                 first.shape)]]

\* masks_3d: zeros((max_frame + 1, *first_mask.shape)), then one assignment per
\* frame of the file, which broadcasts or raises
Masks3D(items, frame_indices) ==
    LET first == NpArray(items[KeyAt(items, Str(frame_indices[1]))].cfg)
        max_frame == frame_indices[Len(frame_indices)]
        arr(idx) == NpArray(items[KeyAt(items, Str(idx))].cfg)
        listed == {frame_indices[n] : n \in 1..Len(frame_indices)}
    IN IF \E idx \in listed : ~Broadcastable(arr(idx), first.shape)
       THEN [raised |-> TRUE, frames |-> <<>>]
       ELSE [raised |-> FALSE,
             frames |-> [n \in 1..(max_frame + 1) |->
                            IF (n - 1) \in listed THEN Broadcast(arr(n - 1), first.shape)
                            ELSE Zeros(first.shape)]]

\* the list of layer tuples read_mask_data returns; every exception ends in
\* the empty list
read_mask_data(doc) ==
    IF ~doc.readable \/ ~doc.json THEN <<>>
    ELSE IF "masks" \notin doc.keys THEN <<>>
    ELSE IF doc.masks = <<>> THEN <<>>
    ELSE IF \E n \in 1..Len(doc.masks) : ~IsIntStr(doc.masks[n].name) THEN <<>>
    ELSE
      LET items == doc.masks
          labels == IF "labels_config" \in doc.keys THEN doc.labels_config ELSE <<>>
          frame_indices == SortedSeq({IntOf(items[n].name) : n \in 1..Len(items)})
      IN IF \E n \in 1..Len(frame_indices) :
                \/ KeyAt(items, Str(frame_indices[n])) = 0
                \/ ~Rectangular(items[KeyAt(items, Str(frame_indices[n]))].cfg)
         THEN <<>>
         ELSE IF Len(frame_indices) = 1
         THEN << [type |-> "labels", ndim |-> 2,
                  data |-> NpArray(items[KeyAt(items, Str(frame_indices[1]))].cfg),
                  colormap |-> ReaderColormap(labels),
                  frame_indices |-> frame_indices] >>
         ELSE LET stack == Masks3D(items, frame_indices)
              IN IF stack.raised THEN <<>>
                 ELSE << [type |-> "labels", ndim |-> 3,
                          data |-> stack.frames,
                          colormap |-> ReaderColormap(labels),
                          frame_indices |-> frame_indices] >>

\* a caller saves a mapping with the widget's registry
SaveMaskData ==
    \E masks \in ReaderInputs, io_ok \in BOOLEAN :
        LET saved == save_mask_data(masks, labels_config, io_ok)
        IN /\ disk' = IF saved.ok
                      THEN [disk EXCEPT !.mask_file = saved.doc, !.mask_file_from = masks]
                      ELSE disk
           /\ UNCHANGED <<current_video, total_frames, current_frame, current_masks,
                          labels_config, current_label, mask_layer, video_layer,
                          frame_slider, label_combo, class_labels>>

\* mask files of other tools: masks of two shapes, the narrow one after the
\* wide one and before it, and a frame key written with a leading zero
ReaderFiles ==
    [ mixed      |-> Doc({"masks"}, <<>>,
                         << Item(<<"0">>, <<<<0, 1>>>>), Item(<<"1">>, <<<<1>>>>) >>),
      mixed_back |-> Doc({"masks"}, <<>>,
                         << Item(<<"0">>, <<<<1>>>>), Item(<<"1">>, <<<<0, 1>>>>) >>),
      padded     |-> Doc({"masks"}, <<>>,
                         << Item(<<"0">>, <<<<0, 1>>>>), Item(<<"0", "1">>, <<<<1, 0>>>>) >>) ]

\* the path argument: a list of file names; a str is the list of one name
ReaderPaths ==
    {<<>>} \cup {<<name>> : name \in FileNames \cup DOMAIN ReaderFiles \cup {"mask_file"}}

\* what open(path) and json.load find at a name
Open(d, name) ==
    IF name = "mask_file" THEN d.mask_file
    ELSE IF name \in DOMAIN ReaderFiles THEN ReaderFiles[name]
    ELSE ReadFile(d, name)

\* the call read_mask_data(path): path[0] is taken before the try, so an
\* empty list raises IndexError to the caller
ReadPath(d, path) ==
    IF path = <<>> THEN [raised |-> TRUE, layers |-> <<>>]
    ELSE [raised |-> FALSE, layers |-> read_mask_data(Open(d, path[1]))]

\* napari opens a file with the reader: the written one, or another
ReadMaskData ==
    \E path \in ReaderPaths :
        /\ disk' = IF ReadPath(disk, path).raised THEN disk
                   ELSE [disk EXCEPT !.layers = ReadPath(disk, path).layers]
        /\ UNCHANGED <<current_video, total_frames, current_frame, current_masks,
                       labels_config, current_label, mask_layer, video_layer,
                       frame_slider, label_combo, class_labels>>

-----------------------------------------------------------------------------
(* The specifications *)

\* the widget in memory: the cursor, the store, the files it reads and the
\* bulk export of what it holds
Next ==
    \/ ChangeFrame
    \/ PrevFrame
    \/ NextFrame
    \/ CreateNewMask
    \/ Paint
    \/ LoadVideo
    \/ CopyFromPrevious
    \/ CopyToNext
    \/ ClearCurrentMask
    \/ ChangeCurrentLabel
    \/ LoadMasks
    \/ LoadLabelConfig
    \/ ExportFramesAndMasks
    \/ ExportMasksAsImages

Spec == Init /\ [][Next]_vars

\* the label registry and what edits it
NextLabels ==
    \/ AddCustomLabel
    \/ EditLabelColor
    \/ ChangeCurrentLabel
    \/ LoadLabelConfig
    \/ LoadMasks
    \/ LoadVideo

SpecLabels == Init /\ [][NextLabels]_vars

\* persistence: what save_masks writes, and reading it back
NextDisk ==
    \/ LoadVideo
    \/ ChangeFrame
    \/ Paint
    \/ SaveMasks
    \/ LoadMasks

SpecDisk == Init /\ [][NextDisk]_vars

\* the reader: documents written by save_mask_data and read by read_mask_data
NextReader ==
    \/ SaveMaskData
    \/ ReadMaskData

SpecReader == Init /\ [][NextReader]_vars

-----------------------------------------------------------------------------
(* The claims.  A claim about what a handler does is stated of the handler's *)
(* result in every reachable state and for every input of the handler.      *)

Frames == 0..(total_frames - 1)

\* C1: loading the document save_masks wrote gives back the store (the same
\* frame indices, the same arrays) and the registry it was written from,
\* wherever the cursor is when the document is loaded.
RoundTrip ==
    disk.saved.readable =>
        LET r == Slot(load_masks(W, SavedPath, disk.saved))
        IN /\ r.current_masks = disk.saved_from.current_masks
           /\ r.labels_config = disk.saved_from.labels_config

\* C2: every mask stored for a frame of the loaded video has the shape of
\* that frame.
ShapeInvariant ==
    current_video # None =>
        \A i \in DOMAIN current_masks \cap Frames :
            current_masks[i].shape = FrameShape(current_video)

\* C3: a successful bulk export writes one frame PNG and one frame NPY for
\* every frame index in [0, total_frames), and the raw PNG, the colorized PNG
\* and the NPY of a mask for exactly the frame indices the store has.
ExportCompleteness ==
    current_video # None =>
        \A fail_at \in 0..total_frames :
            export_frames_and_masks_png_npy(W, "out", fail_at).out = "exported" =>
                LET dir == ExportRun(W, fail_at)
                IN /\ dir.frames_png = Frames
                   /\ dir.frames_npy = Frames
                   /\ DOMAIN dir.masks_raw = DOMAIN current_masks \cap Frames
                   /\ DOMAIN dir.masks_color = DOMAIN current_masks \cap Frames
                   /\ DOMAIN dir.masks_npy = DOMAIN current_masks \cap Frames

\* an export that succeeds on a store that has some frames and lacks others
ExportCompletenessWitness ==
    /\ current_video # None
    /\ \E i, j \in Frames : i \in DOMAIN current_masks /\ j \notin DOMAIN current_masks
    /\ export_frames_and_masks_png_npy(W, "out", total_frames).out = "exported"
    /\ ExportRun(W, total_frames).masks_raw # <<>>

\* C4: the masks_stack a successful bulk export writes has one slice per
\* frame, each of the video's frame shape; the slice of a stored frame is the
\* stored mask and the slice of any other frame is all zero.
MasksStack ==
    current_video # None =>
        \A fail_at \in 0..total_frames :
            export_frames_and_masks_png_npy(W, "out", fail_at).out = "exported" =>
                LET stack == ExportRun(W, fail_at).masks_stack
                IN /\ Len(stack) = total_frames
                   /\ \A i \in Frames :
                        /\ stack[i + 1].shape = FrameShape(current_video)
                        /\ i \in DOMAIN current_masks => stack[i + 1] = current_masks[i]
                        /\ i \notin DOMAIN current_masks => AllEqual(stack[i + 1], 0)

\* C5: a load_masks that fails leaves labels_config and current_masks as they
\* were.
LoadMasksFailureKeepsState ==
    \A path \in FileNames :
        LET r == Slot(load_masks(W, path, ReadFile(disk, path)))
        IN r.out = "error" =>
              /\ r.labels_config = labels_config
              /\ r.current_masks = current_masks

\* C6: a load_video that fails leaves current_video, total_frames,
\* current_frame, current_masks, mask_layer and video_layer as they were.
LoadVideoFailureKeepsState ==
    \A file \in VideoNames, add_ok \in BOOLEAN :
        LET r == Slot(load_video(W, file, add_ok))
        IN r.out = "error" =>
              /\ r.current_video = current_video
              /\ r.total_frames = total_frames
              /\ r.current_frame = current_frame
              /\ r.current_masks = current_masks
              /\ r.mask_layer = mask_layer
              /\ r.video_layer = video_layer

\* C7: no exception leaves a user-triggered action: change_frame, prev_frame,
\* next_frame, create_new_mask, copy_from_previous, copy_to_next,
\* clear_current_mask, add_custom_label, edit_label_color, save, load, export.
NoExceptionEscapes ==
    /\ \A v \in 0..frame_slider.maximum :
          ~Slot(change_frame([W EXCEPT !.frame_slider.value = v], v)).escaped
    /\ ~Slot(prev_frame(W)).escaped
    /\ ~Slot(next_frame(W)).escaped
    /\ ~Slot(create_new_mask(W)).escaped
    /\ ~Slot(copy_from_previous(W)).escaped
    /\ ~Slot(copy_to_next(W)).escaped
    /\ \A yes \in BOOLEAN : ~Slot(clear_current_mask(W, yes)).escaped
    /\ \A name \in AddNames, valid \in BOOLEAN, color \in Palette :
          ~Slot(add_custom_label(W, TRUE, name, valid, color)).escaped
    /\ \A item \in ListItems(labels_config), valid \in BOOLEAN, color \in Palette :
          ~Slot(edit_label_color(W, item, valid, color)).escaped
    /\ \A io_ok \in BOOLEAN : ~Slot(save_masks(W, SavedPath, io_ok)).escaped
    /\ \A path \in FileNames : ~Slot(load_masks(W, path, ReadFile(disk, path))).escaped
    /\ \A fail_at \in 0..total_frames :
          ~Slot(export_frames_and_masks_png_npy(W, "out", fail_at)).escaped

\* C8: add_custom_label never gives a new label a value that is in use; the
\* registry grows, by one entry and at its end, only when the add is accepted,
\* and a cancelled, empty-name, duplicate-name or invalid-color add leaves it
\* as it was.
AddLabelUnique ==
    \A ok \in BOOLEAN, name \in AddNames \cup {"", "background"},
       valid \in BOOLEAN, color \in Palette :
        LET r   == Slot(add_custom_label(W, ok, name, valid, color))
            old == labels_config
            new == r.labels_config
        IN /\ (~ok \/ name = "" \/ Has(old, name) \/ ~valid) => new = old
           /\ new # old =>
                /\ Len(new) = Len(old) + 1
                /\ SubSeq(new, 1, Len(old)) = old
                /\ new[Len(new)].name = name
                /\ new[Len(new)].cfg.value \notin Values(old)

\* an accepted add has happened: the registry holds an added label, whose
\* value no other entry has
AddLabelUniqueWitness ==
    \E i \in 1..Len(labels_config) :
        /\ labels_config[i].name \in AddNames
        /\ Len(labels_config) > 1
        /\ \A j \in 1..Len(labels_config) :
              j # i => (HasValue(labels_config[j].cfg)
                        /\ labels_config[j].cfg.value # labels_config[i].cfg.value)

\* C9: the values of the registry entries are pairwise distinct, and the entry
\* named 'background', when there is one, has value 0.
RegistryInvariant ==
    /\ \A i, j \in 1..Len(labels_config) :
          (i # j /\ HasValue(labels_config[i].cfg) /\ HasValue(labels_config[j].cfg))
              => labels_config[i].cfg.value # labels_config[j].cfg.value
    /\ \A i \in 1..Len(labels_config) :
          (labels_config[i].name = "background" /\ HasValue(labels_config[i].cfg))
              => labels_config[i].cfg.value = 0

\* C10: while a video is loaded the cursor is a frame of it, 0 <= current_frame
\* < total_frames; prev_frame at frame 0 and next_frame at the last frame leave
\* the cursor where it is.
CursorBounds ==
    current_video # None =>
        /\ 0 <= current_frame
        /\ current_frame < total_frames
        /\ current_frame = 0 => Slot(prev_frame(W)).current_frame = current_frame
        /\ current_frame = total_frames - 1 =>
              Slot(next_frame(W)).current_frame = current_frame

\* navigation has brought the cursor to the last frame of a video
CursorBoundsWitness ==
    /\ current_video # None
    /\ current_frame = total_frames - 1
    /\ current_frame > 0
    /\ frame_slider.value = current_frame

\* C11: while a video is loaded every key of current_masks is a frame of it,
\* 0 <= i < total_frames.
KeyRange ==
    current_video # None => DOMAIN current_masks \subseteq Frames

\* C12: a load_video that succeeds leaves current_video and total_frames
\* describing the new video and the cursor at frame 0, and the store holds
\* nothing of the video before: every entry is a frame of the new video and
\* all zero, of the new frame shape.
OneStoreOneVideo ==
    \A file \in VideoNames, add_ok \in BOOLEAN :
        LET r == Slot(load_video(W, file, add_ok))
        IN r.out = "ok" =>
              /\ r.current_video = file
              /\ r.total_frames = VideoFiles[file].frames
              /\ r.current_frame = 0
              /\ \A k \in DOMAIN r.current_masks :
                    /\ k \in 0..(r.total_frames - 1)
                    /\ r.current_masks[k] = Zeros(FrameShape(file))

\* a video with a painted mask is loaded, and a load of a video succeeds
OneStoreOneVideoWitness ==
    /\ current_video # None
    /\ Strokes(current_masks) > 0
    /\ \E file \in VideoNames : Slot(load_video(W, file, TRUE)).out = "ok"

\* the strokes a user may make on the layer w shows: the store after each
Painted(w) ==
    IF w.mask_layer.exists
    THEN {Slot(paint(w, p)).current_masks : p \in 1..Len(w.mask_layer.data.data)}
    ELSE {}

\* the widget after the slider is dragged to frame
DraggedTo(w, frame) ==
    Slot(change_frame([w EXCEPT !.frame_slider.value = frame], frame))

\* C13: copy_from_previous and copy_to_next make the destination's entry equal
\* to the source's and touch no other entry; a later stroke on the layer of
\* either frame leaves the entry of the other frame as it was before the
\* stroke; without a source entry, or without a
\* previous / next frame, the copy warns and leaves the store as it was.
CopyDuplicates ==
    /\ LET r    == Slot(copy_from_previous(W))
           dst  == current_frame
           src  == current_frame - 1
       IN IF current_frame > 0 /\ src \in DOMAIN current_masks
          THEN /\ DOMAIN r.current_masks = DOMAIN current_masks \cup {dst}
               /\ r.current_masks[dst] = current_masks[src]
               /\ \A k \in DOMAIN current_masks \ {dst} : r.current_masks[k] = current_masks[k]
               /\ \A m \in Painted(r) : m[src] = r.current_masks[src]
               /\ LET q == DraggedTo(r, src)
                  IN \A m \in Painted(q) : m[dst] = q.current_masks[dst]
          ELSE r.out = "warned" /\ r.current_masks = current_masks
    /\ LET r    == Slot(copy_to_next(W))
           src  == current_frame
           dst  == current_frame + 1
       IN IF current_frame < total_frames - 1 /\ src \in DOMAIN current_masks
          THEN /\ DOMAIN r.current_masks = DOMAIN current_masks \cup {dst}
               /\ r.current_masks[dst] = current_masks[src]
               /\ \A k \in DOMAIN current_masks \ {dst} : r.current_masks[k] = current_masks[k]
               /\ \A m \in Painted(r) : m[dst] = r.current_masks[dst]
               /\ LET q == DraggedTo(r, dst)
                  IN \A m \in Painted(q) : m[src] = q.current_masks[src]
          ELSE r.out = "warned" /\ r.current_masks = current_masks

\* a painted mask has been copied: two neighbouring frames hold the same mask,
\* which is not all zero, and the layer that shows one of them can be painted
CopyDuplicatesWitness ==
    /\ current_video # None
    /\ mask_layer.exists
    /\ \E i \in Frames :
          /\ i \in DOMAIN current_masks /\ (i + 1) \in DOMAIN current_masks
          /\ current_masks[i] = current_masks[i + 1]
          /\ ~AllEqual(current_masks[i], 0)
          /\ current_frame \in {i, i + 1}

\* C14: a confirmed clear_current_mask with a video loaded sets the entry of
\* the current frame to zeros of the frame's shape and leaves every other
\* entry as it was; declined, or without a video, it leaves the store as it was.
ClearZeroes ==
    \A yes \in BOOLEAN :
        LET r == Slot(clear_current_mask(W, yes))
        IN IF current_video # None /\ yes
           THEN /\ DOMAIN r.current_masks = DOMAIN current_masks \cup {current_frame}
                /\ r.current_masks[current_frame] = Zeros(FrameShape(current_video))
                /\ \A k \in DOMAIN current_masks \ {current_frame} :
                      r.current_masks[k] = current_masks[k]
           ELSE r.current_masks = current_masks

\* the current frame holds a painted mask and another frame holds a mask too
ClearZeroesWitness ==
    /\ current_video # None
    /\ current_frame \in DOMAIN current_masks
    /\ ~AllEqual(current_masks[current_frame], 0)
    /\ DOMAIN current_masks \ {current_frame} # {}

\* the part of the widget C15 speaks of
Held(w) == <<w.current_masks, w.current_frame, w.total_frames, w.labels_config>>

\* C15: without a video, export_frames_and_masks_png_npy and create_new_mask
\* warn, the export writes nothing and create_new_mask creates no layer,
\* change_frame and clear_current_mask return at once; none of them changes
\* current_masks, current_frame, total_frames or labels_config.
MissingPrerequisite ==
    current_video = None =>
        /\ \A folder \in {"out", ""}, fail_at \in 0..2 :
              LET r == Slot(export_frames_and_masks_png_npy(W, folder, fail_at))
              IN /\ r.out = "warned"
                 /\ ExportWrites(W, folder, fail_at) = NoExport
                 /\ Held(r) = Held(W)
        /\ LET r == Slot(create_new_mask(W))
           IN r.out = "warned" /\ ~r.mask_layer.exists /\ Held(r) = Held(W)
        /\ \A frame_index \in 0..2 :
              LET r == Slot(change_frame(W, frame_index))
              IN ~r.escaped /\ ~r.mask_layer.exists /\ Held(r) = Held(W)
        /\ \A yes \in BOOLEAN :
              LET r == Slot(clear_current_mask(W, yes))
              IN ~r.escaped /\ ~r.mask_layer.exists /\ Held(r) = Held(W)

\* no video is loaded, and the store and the registry are not the initial ones
MissingPrerequisiteWitness ==
    /\ current_video = None
    /\ current_masks # <<>>
    /\ labels_config # DEFAULT_LABELS

\* the colour C16 asks of a pixel of value v: the colour of every entry whose
\* value is v, black when there is none
ColourAsked(d, v, rgb) ==
    /\ \A i \in 1..Len(d) : d[i].cfg.value = v => rgb = SubSeq(d[i].cfg.color, 1, 3)
    /\ (\A i \in 1..Len(d) : d[i].cfg.value # v) => rgb = <<0, 0, 0>>

\* C16: in the colorized image of a frame, written by the bulk export or by
\* export_masks_as_images, a pixel whose value is the value of a registry
\* entry has that entry's first three colour components, and a pixel whose
\* value no entry has is black.
ColorizedExport ==
    WellFormed(labels_config) =>
        /\ current_video # None =>
              \A fail_at \in 0..total_frames :
                  export_frames_and_masks_png_npy(W, "out", fail_at).out = "exported" =>
                      LET dir == ExportRun(W, fail_at)
                      IN \A i \in DOMAIN dir.masks_color :
                            LET mask == current_masks[i]
                                img  == dir.masks_color[i]
                            IN IF mask.shape = FrameShape(current_video)
                               THEN \A p \in 1..Len(img) :
                                       ColourAsked(labels_config, mask.data[p], img[p])
                               ELSE \A p \in 1..Len(img) : img[p] = <<0, 0, 0>>
        /\ LET imgs == ImagesWritten(W, "out", TRUE)
           IN \A i \in DOMAIN imgs :
                 \A p \in 1..Len(imgs[i]) :
                    ColourAsked(labels_config, current_masks[i].data[p], imgs[i][p])

\* C17: a bulk export that fails leaves on disk what it wrote: there is a
\* frame k, not after the failing write, such that the artifacts of every
\* frame before k are there and nothing of a frame after k is; the stacks and
\* the metadata document are not written, an error is reported and the widget
\* is as it was.  The stacks are written only with every frame's artifacts.
NoRollback ==
    (current_video # None /\ WellFormed(labels_config)) =>
        \A fail_at \in 0..total_frames :
            LET dir    == ExportRun(W, fail_at)
                r      == Slot(export_frames_and_masks_png_npy(W, "out", fail_at))
                stored == DOMAIN current_masks \cap Frames
            IN /\ dir.failed =>
                    /\ r.out = "error"
                    /\ ~dir.stacks /\ ~dir.metadata /\ dir.masks_stack = <<>>
                    /\ [r EXCEPT !.out = "ok"] = W
                    /\ \E k \in 0..fail_at :
                          /\ 0..(k - 1) \subseteq dir.frames_png
                          /\ 0..(k - 1) \subseteq dir.frames_npy
                          /\ stored \cap 0..(k - 1) \subseteq DOMAIN dir.masks_raw
                          /\ stored \cap 0..(k - 1) \subseteq DOMAIN dir.masks_color
                          /\ stored \cap 0..(k - 1) \subseteq DOMAIN dir.masks_npy
                          /\ dir.frames_png \cup dir.frames_npy \subseteq 0..k
                          /\ DOMAIN dir.masks_raw \cup DOMAIN dir.masks_color
                                \cup DOMAIN dir.masks_npy \subseteq 0..k
               /\ fail_at < total_frames => dir.failed
               /\ dir.stacks => (dir.frames_png = Frames /\ DOMAIN dir.masks_npy = stored)

\* an export that fails at its second frame after writing a frame and a mask
NoRollbackWitness ==
    /\ current_video # None
    /\ WellFormed(labels_config)
    /\ total_frames > 1
    /\ LET dir == ExportRun(W, 1)
       IN /\ dir.failed
          /\ dir.frames_png = {0}
          /\ DOMAIN dir.masks_npy = {0}

\* a registry entry without its colour
Uncoloured(cfg) == [k \in DOMAIN cfg \ {"color"} |-> cfg[k]]

MetadataConsistency ==
    current_video # None =>
        \A fail_at \in 0..total_frames :
            export_frames_and_masks_png_npy(W, "out", fail_at).out = "exported" =>
                LET dir == ExportRun(W, fail_at)
                    mf  == dir.masked_frames
                IN /\ \A a, b \in 1..Len(mf) : a < b => mf[a] < mf[b]
                   /\ {mf[a] : a \in 1..Len(mf)} = DOMAIN dir.masks_raw
                   /\ {mf[a] : a \in 1..Len(mf)} = DOMAIN dir.masks_color
                   /\ {mf[a] : a \in 1..Len(mf)} = DOMAIN dir.masks_npy
                   /\ \A a \in 1..Len(mf) :
                         mf[a] \in Frames /\ dir.masks_stack[mf[a] + 1] = current_masks[mf[a]]

\* layer.data[i] as numpy indexes it: slice i of a 3D array, row i of a 2D
\* array (a 1D array), NoArray for an IndexError
AtIndex(layer, i) ==
    IF layer.ndim = 3
    THEN IF i < Len(layer.data) THEN layer.data[i + 1] ELSE NoArray
    ELSE IF i < layer.data.shape[1]
         THEN [shape |-> <<layer.data.shape[2]>>,
               data |-> SubSeq(layer.data.data, i * layer.data.shape[2] + 1,
                               (i + 1) * layer.data.shape[2])]
         ELSE NoArray

EqualShaped(masks) == \A i, j \in DOMAIN masks : masks[i].shape = masks[j].shape

\* C20 as stated: read_mask_data of the file save_mask_data wrote from a
\* non-empty mapping of equal-shaped masks returns one labels layer whose
\* array, indexed by frame, is the saved mask at every saved frame and all
\* zero at every frame below the largest that was not saved.
ReaderRoundTripByFrame ==
    (disk.mask_file.readable /\ EqualShaped(disk.mask_file_from)) =>
        LET from   == disk.mask_file_from
            layers == read_mask_data(disk.mask_file)
        IN /\ Len(layers) = 1
           /\ layers[1].type = "labels"
           /\ \A i \in 0..SetMax(DOMAIN from) :
                 IF i \in DOMAIN from
                 THEN AtIndex(layers[1], i) = from[i]
                 ELSE /\ AtIndex(layers[1], i) # NoArray
                      /\ AllEqual(AtIndex(layers[1], i), 0)

\* C20, amended: for a mapping of two or more frames the layer is a 3D array
\* of max + 1 slices, the saved mask at every saved frame and zeros of the
\* mask shape at the others; for a mapping of one frame the layer is the 2D
\* mask itself, its frame index kept in the metadata only.
ReaderRoundTrip ==
    (disk.mask_file.readable /\ EqualShaped(disk.mask_file_from)) =>
        LET from   == disk.mask_file_from
            layers == read_mask_data(disk.mask_file)
            max    == SetMax(DOMAIN from)
        IN /\ Len(layers) = 1
           /\ layers[1].type = "labels"
           /\ layers[1].frame_indices = SortedSeq(DOMAIN from)
           /\ IF Cardinality(DOMAIN from) = 1
              THEN /\ layers[1].ndim = 2
                   /\ layers[1].data = from[max]
              ELSE /\ layers[1].ndim = 3
                   /\ Len(layers[1].data) = max + 1
                   /\ \A i \in 0..max :
                         layers[1].data[i + 1] =
                            IF i \in DOMAIN from THEN from[i] ELSE Zeros(from[max].shape)

\* a mapping that lacks a frame below its largest has been saved and read back
ReaderRoundTripWitness ==
    /\ disk.mask_file.readable
    /\ EqualShaped(disk.mask_file_from)
    /\ DOMAIN disk.mask_file_from = {0, 2}
    /\ ~AllEqual(disk.mask_file_from[2], 0)
    /\ disk.layers = read_mask_data(disk.mask_file)
    /\ disk.layers # <<>>

\* what the claim lists as a file without layers: unreadable, no JSON, no
\* 'masks' key, an empty 'masks' mapping, a frame key that is no integer, masks
\* of differing shapes
Rejected(doc) ==
    \/ ~doc.readable \/ ~doc.json
    \/ "masks" \notin doc.keys
    \/ doc.masks = <<>>
    \/ \E n \in 1..Len(doc.masks) : ~IsIntStr(doc.masks[n].name)
    \/ \E m, n \in 1..Len(doc.masks) :
           NpArray(doc.masks[m].cfg).shape # NpArray(doc.masks[n].cfg).shape

\* C21: read_mask_data never raises; for a file the claim lists as unusable
\* (unreadable, malformed, without 'masks', with empty 'masks', with a
\* non-integer frame key, with masks of differing shapes) it returns the empty
\* list, and for every other file a list of exactly one 'labels' layer
ReaderTotal ==
    \A path \in ReaderPaths :
        LET r == ReadPath(disk, path)
        IN /\ ~r.raised
           /\ path # <<>> =>
                  IF Rejected(Open(disk, path[1])) THEN r.layers = <<>>
                  ELSE Len(r.layers) = 1 /\ r.layers[1].type = "labels"

\* the layer of w shows the stored mask of the cursor's frame
InSync(w) ==
    w.mask_layer.exists =>
        /\ w.current_frame \in DOMAIN w.current_masks
        /\ w.mask_layer.data = w.current_masks[w.current_frame]

\* C22: after every completed user action a mask layer that exists shows
\* current_masks[current_frame]; a switch from frame a to frame b stores the
\* displayed data under a and then displays the stored mask of b
CursorStoreSync ==
    /\ InSync(W)
    /\ \A b \in 0..frame_slider.maximum :
          LET r == DraggedTo(W, b)
          IN (mask_layer.exists /\ r.mask_layer.exists /\ b # current_frame) =>
                /\ r.current_masks[current_frame] = mask_layer.data
                /\ r.mask_layer.data =
                      IF b \in DOMAIN current_masks THEN current_masks[b]
                      ELSE Zeros(FrameShape(current_video))

\* C23: after a successful load_video the store holds exactly one entry, an
\* all-zero mask of the new video's frame shape under frame 0, and the cursor
\* is at 0, wherever the cursor and the slider were before the load
LoadVideoFreshStore ==
    \A file \in VideoNames, add_ok \in BOOLEAN :
        LET r == Slot(load_video(W, file, add_ok))
        IN r.out = "ok" =>
              /\ r.current_frame = 0
              /\ r.current_masks = (0 :> Zeros(FrameShape(file)))

\* C24: with a video loaded, create_new_mask on a frame absent from the store
\* displays an all-zero mask of the frame's shape and records that very array
\* under the current frame; on a frame present in the store it displays a copy
\* of the stored array and leaves the store as it was; the entries of the
\* other frames stay as they were; change_frame to an absent frame displays
\* and records the all-zero mask likewise
LazyDefault ==
    current_video # None =>
        LET r      == Slot(create_new_mask(W))
            zeros  == Zeros(FrameShape(current_video))
            others == DOMAIN current_masks \ {current_frame}
        IN /\ DOMAIN r.current_masks = DOMAIN current_masks \cup {current_frame}
           /\ \A k \in others : r.current_masks[k] = current_masks[k]
           /\ r.mask_layer.exists
           /\ IF current_frame \in DOMAIN current_masks
              THEN /\ r.current_masks = current_masks
                   /\ r.mask_layer.data = current_masks[current_frame]
                   /\ current_frame \notin r.mask_layer.aliased
              ELSE /\ r.current_masks[current_frame] = zeros
                   /\ r.mask_layer.data = zeros
                   /\ current_frame \in r.mask_layer.aliased
           /\ \A b \in (0..frame_slider.maximum) \ (DOMAIN current_masks \cup {current_frame}) :
                 LET q == DraggedTo(W, b)
                 IN /\ q.mask_layer.exists
                    /\ q.mask_layer.data = zeros
                    /\ q.current_masks[b] = zeros

\* C25: whatever add_custom_label, edit_label_color, load_label_config and
\* load_masks did on the widget, the class table DEFAULT_LABELS holds its
\* original names, values and colours, which are what a widget created now
\* would copy as its registry
DefaultLabelsKept ==
    class_labels.table = DEFAULT_LABELS

\* C26: in every state reached by change_current_label, add_custom_label,
\* load_label_config and load_masks, current_label is the value of some
\* registry entry other than 'background'
CurrentLabelValid ==
    \E i \in 1..Len(labels_config) :
        /\ labels_config[i].name # "background"
        /\ HasValue(labels_config[i].cfg)
        /\ labels_config[i].cfg.value = current_label

====
